---- MODULE Spec2Model ----
(***************************************************************************)
(* Turn-resolution engine of geopolitical_sim.py: Country (entity state,   *)
(* update_economy, produce_resources, apply_policy, reset_temp), World     *)
(* (update, resolve_trade) and the turn-advancing handlers of Game.        *)
(*                                                                         *)
(* Python floats are modelled as exact rationals <<n, d>> in lowest terms  *)
(* with d > 0: the arithmetic is that of the real numbers the code's       *)
(* formulas denote, without IEEE rounding.                                 *)
(***************************************************************************)
EXTENDS Integers, Sequences, FiniteSets, TLC

\* countries: World.countries, a list of Country records.
\* player_country, selected_country, awaiting_sanction_target, turn_count,
\* message: the fields of Game.
\* pc, idx: the position inside World.update and the index its loop is at.
\* calls: the number of apply_policy calls made on the engine so far.
VARIABLES countries, player_country, selected_country,
          awaiting_sanction_target, turn_count, message, pc, idx, calls

vars == <<countries, player_country, selected_country,
          awaiting_sanction_target, turn_count, message, pc, idx, calls>>

game_vars == <<player_country, selected_country, awaiting_sanction_target,
               turn_count, message>>

\* Number of apply_policy calls the engine-level specifications explore.
MaxCalls == 1

\* Number of turns the Game specification explores.
MaxTurns == 1

\* Number of the game's four countries the Game specification keeps.
GameCountries == 3

-----------------------------------------------------------------------------
(* Float arithmetic, as exact rationals.                                   *)

Abs(n) == IF n < 0 THEN -n ELSE n

RECURSIVE GCD(_, _)
GCD(a, b) == IF b = 0 THEN a ELSE GCD(b, a % b)

\* The float n/d.
R(n, d) ==
    LET g == GCD(Abs(n), Abs(d))
        s == IF d < 0 THEN -1 ELSE 1
    IN  <<s * (n \div g), s * (d \div g)>>

Zero == <<0, 1>>
One == <<1, 1>>

RAdd(x, y) ==
    LET g == GCD(x[2], y[2])
    IN  R(x[1] * (y[2] \div g) + y[1] * (x[2] \div g), x[2] * (y[2] \div g))

RNeg(x) == <<-x[1], x[2]>>

RSub(x, y) == RAdd(x, RNeg(y))

RMul(x, y) ==
    LET g1 == GCD(Abs(x[1]), y[2])
        g2 == GCD(Abs(y[1]), x[2])
    IN  <<(x[1] \div g1) * (y[1] \div g2), (x[2] \div g2) * (y[2] \div g1)>>

\* x / y, for y # 0.
RDiv(x, y) ==
    RMul(x, IF y[1] < 0 THEN <<-y[2], -y[1]>> ELSE <<y[2], y[1]>>)

RLt(x, y) == RSub(x, y)[1] < 0
RLe(x, y) == RSub(x, y)[1] <= 0
RGe(x, y) == RLe(y, x)
RGt(x, y) == RLt(y, x)

RMax(x, y) == IF RLt(x, y) THEN y ELSE x
RMin(x, y) == IF RLt(y, x) THEN y ELSE x

RECURSIVE RSum(_)
RSum(s) == IF s = <<>> THEN Zero ELSE RAdd(Head(s), RSum(Tail(s)))

-----------------------------------------------------------------------------
(* Country                                                                 *)

\* The resource kinds of a Country's resources dict, in key order.
ResourceKinds == <<"oil", "minerals", "agriculture">>

Kinds == {ResourceKinds[k] : k \in DOMAIN ResourceKinds}

\* An absent target (target=None).
None == "None"

\* Country(...): a dataclass instance; new_sanctions is not an init field.
Country(name, resources, gdp, growth_rate, population, tax_rate, tariff_rate, sanctions) ==
    [name |-> name, resources |-> resources, gdp |-> gdp,
     growth_rate |-> growth_rate, population |-> population,
     tax_rate |-> tax_rate, tariff_rate |-> tariff_rate,
     sanctions |-> sanctions, new_sanctions |-> {}]

\* Country.update_economy, with the value random.uniform(-0.01, 0.01) drew.
update_economy(c, fluctuation) ==
    LET tax_penalty == RMul(c.tax_rate, R(5, 10))
        effective_growth == RMax(RSub(c.growth_rate, tax_penalty), R(-5, 100))
        delta == RMul(c.gdp, RAdd(effective_growth, fluctuation))
    IN  [c EXCEPT !.gdp = RMax(RAdd(c.gdp, delta), Zero)]

\* The amount produce_resources adds to a stock.
Production(c, stock) ==
    RAdd(RMul(c.population, R(1, 10)), RMul(stock, R(2, 100)))

\* Country.produce_resources
produce_resources(c) ==
    [c EXCEPT !.resources =
        [key \in DOMAIN c.resources |->
            RAdd(c.resources[key], Production(c, c.resources[key]))]]

\* all(value >= 10 for value in self.resources.values())
can_invest(c) == \A key \in DOMAIN c.resources : RGe(c.resources[key], R(10, 1))

\* raise_taxes without its upper limit.
RaiseTaxesUnclamped(c) == [c EXCEPT !.tax_rate = RAdd(c.tax_rate, R(2, 100))]

\* raise_taxes
RaiseTaxes(c) == [c EXCEPT !.tax_rate = RMin(RAdd(c.tax_rate, R(2, 100)), R(5, 10))]

\* lower_taxes
LowerTaxes(c) == [c EXCEPT !.tax_rate = RMax(RSub(c.tax_rate, R(2, 100)), Zero)]

\* raise_tariffs
RaiseTariffs(c) ==
    [c EXCEPT !.tariff_rate = RMin(RAdd(c.tariff_rate, R(5, 100)), One)]

\* lower_tariffs
LowerTariffs(c) ==
    [c EXCEPT !.tariff_rate = RMax(RSub(c.tariff_rate, R(5, 100)), Zero)]

\* invest_in_infrastructure without the can_invest test.
InvestUnchecked(c) ==
    [c EXCEPT !.resources =
                  [key \in DOMAIN c.resources |->
                      RSub(c.resources[key], R(10, 1))],
              !.growth_rate = RAdd(c.growth_rate, R(5, 1000))]

\* invest_in_infrastructure
Invest(c) ==
    IF can_invest(c)
    THEN [c EXCEPT !.resources =
                       [key \in DOMAIN c.resources |->
                           RSub(c.resources[key], R(10, 1))],
                   !.growth_rate = RAdd(c.growth_rate, R(5, 1000))]
    ELSE c

\* sanction without the test that the target is not sanctioned yet.
SanctionUnchecked(c, target) ==
    IF target # None
    THEN [c EXCEPT !.sanctions = c.sanctions \cup {target},
                   !.new_sanctions = c.new_sanctions \cup {target}]
    ELSE c

\* sanction, with target the name of the target Country or None
Sanction(c, target) ==
    IF target # None /\ target \notin c.sanctions
    THEN [c EXCEPT !.sanctions = c.sanctions \cup {target},
                   !.new_sanctions = c.new_sanctions \cup {target}]
    ELSE c

\* Country.apply_policy
apply_policy(c, policy, target) ==
    CASE policy = "lower_taxes" -> LowerTaxes(c)
      [] policy = "raise_taxes" -> RaiseTaxes(c)
      [] policy = "lower_tariffs" -> LowerTariffs(c)
      [] policy = "raise_tariffs" -> RaiseTariffs(c)
      [] policy = "invest_in_infrastructure" -> Invest(c)
      [] policy = "sanction" -> Sanction(c, target)
      [] OTHER -> c

\* Country.reset_temp
reset_temp(c) == [c EXCEPT !.new_sanctions = {}]

-----------------------------------------------------------------------------
(* World                                                                   *)

\* consumption = c.population * 0.2
Consumption(c) == RMul(c.population, R(2, 10))

\* available = c.resources.get(resource, 0.0)
Available(c, resource) ==
    IF resource \in DOMAIN c.resources THEN c.resources[resource] ELSE Zero

\* The value resolve_trade stores in demands[c.name].
Demand(c, resource) ==
    IF RLt(Available(c, resource), Consumption(c))
    THEN RSub(Consumption(c), Available(c, resource))
    ELSE Zero

\* The value resolve_trade stores in supplies[c.name].
Supply(c, resource) ==
    IF RLt(Available(c, resource), Consumption(c))
    THEN Zero
    ELSE RSub(Available(c, resource), Consumption(c))

Names(cs) == {cs[i].name : i \in DOMAIN cs}

\* A dict keyed by name keeps the value written last for that name.
LastNamed(cs, n) ==
    CHOOSE i \in DOMAIN cs :
        cs[i].name = n /\ \A j \in DOMAIN cs : j > i => cs[j].name # n

\* The demands dict, complete before any stock is mutated.
demands(cs, resource) ==
    [n \in Names(cs) |-> Demand(cs[LastNamed(cs, n)], resource)]

\* The supplies dict, complete before any stock is mutated.
supplies(cs, resource) ==
    [n \in Names(cs) |-> Supply(cs[LastNamed(cs, n)], resource)]

total_demand(cs, resource) ==
    RSum([i \in DOMAIN cs |-> Demand(cs[i], resource)])

total_supply(cs, resource) ==
    RSum([i \in DOMAIN cs |-> Supply(cs[i], resource)])

\* The sanction test looking at the exporter's sanctions alone.
SanctionedByExporter(importer, exporter) ==
    importer.name \in exporter.sanctions

\* importer.name in exporter.sanctions or exporter.name in importer.sanctions
Sanctioned(importer, exporter) ==
    \/ importer.name \in exporter.sanctions
    \/ exporter.name \in importer.sanctions

\* The supply recomputed from the exporter's stock as mutated so far.
LiveSupply(sup, cs, e, resource) == Supply(cs[e], resource)

\* supply = supplies[exporter.name]: the value read for a pair; cs is the
\* list as mutated so far.
PairSupply(sup, cs, e, resource) == sup[cs[e].name]

\* demand = demands[importer.name]
PairDemand(dem, cs, i, resource) == dem[cs[i].name]

\* volume = (supply / total_supply) * demand
Volume(supply, ts, demand) == RMul(RDiv(supply, ts), demand)

\* volume_after_tariff = volume * (1.0 - importer.tariff_rate)
VolumeAfterTariff(volume, importer) ==
    RMul(volume, RSub(One, importer.tariff_rate))

\* The exporter debited what the importer receives.
DebitAfterTariff(volume, volume_after_tariff) == volume_after_tariff

\* The amount taken from the exporter: exporter.resources[resource] -= volume
Debit(volume, volume_after_tariff) == volume

\* The amount given to the importer.
Credit(volume, volume_after_tariff) == volume_after_tariff

\* The body of the exporter loop for importer i and exporter e.
TradePair(cs, resource, dem, sup, ts, i, e) ==
    LET demand == PairDemand(dem, cs, i, resource)
        supply == PairSupply(sup, cs, e, resource)
    IN  IF RLe(demand, Zero) \/ RLe(supply, Zero) \/ Sanctioned(cs[i], cs[e])
        THEN cs
        ELSE LET volume == Volume(supply, ts, demand)
                 vat == VolumeAfterTariff(volume, cs[i])
                 cs1 == [cs EXCEPT ![e].resources[resource] =
                                      RSub(@, Debit(volume, vat))]
             IN  [cs1 EXCEPT ![i].resources[resource] =
                                 RAdd(@, Credit(volume, vat))]

\* The nested importer/exporter loops, from pair number k on: pair k is
\* importer (k-1) \div n + 1 with exporter (k-1) % n + 1.
RECURSIVE TradePairs(_, _, _, _, _, _)
TradePairs(cs, resource, dem, sup, ts, k) ==
    LET n == Len(cs)
    IN  IF k > n * n
        THEN cs
        ELSE TradePairs(
                 TradePair(cs, resource, dem, sup, ts,
                           ((k - 1) \div n) + 1, ((k - 1) % n) + 1),
                 resource, dem, sup, ts, k + 1)

\* One iteration of `for resource in resource_types`.
TradeResource(cs, resource) ==
    LET ts == total_supply(cs, resource)
        td == total_demand(cs, resource)
    IN  IF RLe(ts, Zero) \/ RLe(td, Zero)
        THEN cs
        ELSE TradePairs(cs, resource, demands(cs, resource),
                        supplies(cs, resource), ts, 1)

\* resource_types = list(self.countries[0].resources.keys())
resource_types(cs) ==
    SelectSeq(ResourceKinds, LAMBDA r : r \in DOMAIN cs[1].resources)

RECURSIVE TradeResources(_, _)
TradeResources(cs, kinds) ==
    IF kinds = <<>>
    THEN cs
    ELSE TradeResources(TradeResource(cs, Head(kinds)), Tail(kinds))

\* World.resolve_trade
resolve_trade(cs) ==
    IF cs = <<>> THEN cs ELSE TradeResources(cs, resource_types(cs))

\* World.update, with fl[i] the fluctuation drawn for countries[i].
update(cs, fl) ==
    LET produced == [i \in DOMAIN cs |-> produce_resources(cs[i])]
        grown == [i \in DOMAIN cs |-> update_economy(produced[i], fl[i])]
        traded == resolve_trade(grown)
    IN  [i \in DOMAIN cs |-> reset_temp(traded[i])]

\* World(countries): the dataclass stores the list it is given.
World(cs) == cs

\* The values drawn for random.uniform(-0.01, 0.01): the two ends.
Fluctuations == {R(-1, 100), R(1, 100)}

-----------------------------------------------------------------------------
(* The engine driven through its interface: apply_policy calls on the      *)
(* entities of a World and one World.update(), followed statement by       *)
(* statement.  pc is the position inside update and idx the index of the   *)
(* loop it is in.  The initial worlds are drawn from Profiles, so that     *)
(* importers, exporters, blocked pairs and rates at their limits occur.    *)

Policies == {"lower_taxes", "raise_taxes", "lower_tariffs", "raise_tariffs",
             "invest_in_infrastructure", "sanction"}

EntityNames == <<"A", "B", "C">>

Stocks(oil, minerals, agriculture) ==
    [oil |-> R(oil, 1), minerals |-> R(minerals, 1),
     agriculture |-> R(agriculture, 1)]

\* Initial field values of an entity: a large exporter able to invest, an
\* importer with no tariff, and a small entity with both rates at the top.
PolicyProfiles ==
    {[resources |-> Stocks(100, 20, 10), population |-> R(10, 1),
      tax_rate |-> R(49, 100), tariff_rate |-> R(1, 10)],
     [resources |-> Stocks(0, 60, 1), population |-> R(10, 1),
      tax_rate |-> R(1, 100), tariff_rate |-> Zero],
     [resources |-> Stocks(1, 0, 12), population |-> R(1, 1),
      tax_rate |-> R(5, 10), tariff_rate |-> One]}

\* The same, and an importer that applies a tariff.
Profiles ==
    PolicyProfiles \cup
    {[resources |-> Stocks(0, 30, 2), population |-> R(14, 1),
      tax_rate |-> R(15, 100), tariff_rate |-> R(1, 10)]}

\* The second entity has sanctioned the first.
SecondSanctionsFirst ==
    [i \in DOMAIN EntityNames |-> IF i = 2 THEN {EntityNames[1]} ELSE {}]

\* Sanctions in force when the world is built: none, or the second entity
\* has sanctioned the first.
InitialSanctions ==
    {[i \in DOMAIN EntityNames |-> {}], SecondSanctionsFirst}

\* The World built from one profile and one sanctions set per entity; gdp
\* and growth_rate are the dataclass defaults.
NewWorld(names, prof, san) ==
    World([i \in DOMAIN names |->
              Country(names[i], prof[i].resources, R(100, 1),
                      R(2, 100), prof[i].population, prof[i].tax_rate,
                      prof[i].tariff_rate, san[i])])

\* Game.__init__, but for the world.
NoGame ==
    /\ player_country = 0
    /\ selected_country = 0
    /\ awaiting_sanction_target = FALSE
    /\ turn_count = 1
    /\ message = <<"Click a country to play.">>

\* The engine holds the world cs and no call has been made.
Engine(cs) ==
    /\ countries = cs
    /\ NoGame
    /\ pc = "idle"
    /\ idx = 0
    /\ calls = 0

Init ==
    \E prof \in [DOMAIN EntityNames -> PolicyProfiles] :
        Engine(NewWorld(EntityNames, prof, SecondSanctionsFirst))

InitUpdate ==
    \E prof \in [DOMAIN EntityNames -> Profiles], san \in InitialSanctions :
        Engine(NewWorld(EntityNames, prof, san))

\* c.apply_policy(policy, target) on countries[i], between turns.
ApplyPolicy(i, policy, target) ==
    /\ pc \in {"idle", "returned"}
    /\ calls < MaxCalls
    /\ countries' = [countries EXCEPT ![i] = apply_policy(@, policy, target)]
    /\ calls' = calls + 1
    /\ UNCHANGED <<pc, idx>>
    /\ UNCHANGED game_vars

\* World.update with resolve_trade called before the update_economy loop.
AfterTradeFirst(phase) ==
    CASE phase = "produce" -> "trade"
      [] phase = "trade" -> "economy"
      [] phase = "economy" -> "reset"
      [] phase = "reset" -> "returned"

\* The order of the four loops and the call in World.update.
After(phase) ==
    CASE phase = "produce" -> "economy"
      [] phase = "economy" -> "trade"
      [] phase = "trade" -> "reset"
      [] phase = "reset" -> "returned"

\* `for c in self.countries`: the position after the body ran for entity i
\* of n.
LoopNext(phase, i, n) ==
    IF i < n THEN <<phase, i + 1>> ELSE <<After(phase), 1>>

\* world.update() is called.
UpdateCall ==
    /\ pc = "idle"
    /\ pc' = IF countries = <<>> THEN After("produce") ELSE "produce"
    /\ idx' = 1
    /\ UNCHANGED <<countries, calls>>
    /\ UNCHANGED game_vars

\* c.produce_resources() in the first loop.
ProduceStep ==
    /\ pc = "produce"
    /\ countries' = [countries EXCEPT ![idx] = produce_resources(@)]
    /\ pc' = LoopNext(pc, idx, Len(countries))[1]
    /\ idx' = LoopNext(pc, idx, Len(countries))[2]
    /\ UNCHANGED calls
    /\ UNCHANGED game_vars

\* c.update_economy() in the second loop.
EconomyStep(fluctuation) ==
    /\ pc = "economy"
    /\ countries' = [countries EXCEPT ![idx] = update_economy(@, fluctuation)]
    /\ pc' = LoopNext(pc, idx, Len(countries))[1]
    /\ idx' = LoopNext(pc, idx, Len(countries))[2]
    /\ UNCHANGED calls
    /\ UNCHANGED game_vars

\* self.resolve_trade()
TradeStep ==
    /\ pc = "trade"
    /\ countries' = resolve_trade(countries)
    /\ pc' = After(pc)
    /\ idx' = 1
    /\ UNCHANGED calls
    /\ UNCHANGED game_vars

\* c.reset_temp() in the last loop.
ResetStep ==
    /\ pc = "reset"
    /\ countries' = [countries EXCEPT ![idx] = reset_temp(@)]
    /\ pc' = LoopNext(pc, idx, Len(countries))[1]
    /\ idx' = LoopNext(pc, idx, Len(countries))[2]
    /\ UNCHANGED calls
    /\ UNCHANGED game_vars

Policy ==
    \E i \in DOMAIN countries, policy \in Policies,
       target \in Names(countries) \cup {None} :
        /\ policy # "sanction" => target = None
        /\ ApplyPolicy(i, policy, target)

Economy == \E fluctuation \in Fluctuations : EconomyStep(fluctuation)

Next ==
    \/ Policy
    \/ UpdateCall
    \/ ProduceStep
    \/ Economy
    \/ TradeStep
    \/ ResetStep

Spec == Init /\ [][Next]_vars

\* One World.update() of each initial world, with no policy applied.
NextUpdate ==
    \/ UpdateCall
    \/ ProduceStep
    \/ Economy
    \/ TradeStep
    \/ ResetStep

SpecUpdate == InitUpdate /\ [][NextUpdate]_vars

\* Construction from any entity list the caller supplies: Country and World
\* are dataclasses with no __post_init__, so the list is stored as given,
\* also with a name used twice or a negative population.
ConfigNames == {EntityNames, <<"A", "A", "C">>}

ConfigProfiles ==
    PolicyProfiles \cup
    {[resources |-> Stocks(5, 5, 5), population |-> R(-10, 1),
      tax_rate |-> R(15, 100), tariff_rate |-> R(1, 10)]}

InitConfig ==
    \E names \in ConfigNames, prof \in [DOMAIN EntityNames -> ConfigProfiles] :
        Engine(NewWorld(names, prof, [i \in DOMAIN names |-> {}]))

SpecConfig == InitConfig /\ [][NextUpdate]_vars

-----------------------------------------------------------------------------
(* Properties of the engine.  What a property says about trade is written  *)
(* here from the description of trade clearing, on the entities' fields,   *)
(* and compared with what resolve_trade did.                               *)

Entities == DOMAIN countries

Stock(cs, i, kind) == cs[i].resources[kind]

\* population * 0.2
Needs(c) == RMul(c.population, R(1, 5))

\* How much of a kind an entity lacks, and how much it can spare.
Lacks(c, kind) ==
    IF RLt(c.resources[kind], Needs(c))
    THEN RSub(Needs(c), c.resources[kind]) ELSE Zero

Spare(c, kind) ==
    IF RLt(c.resources[kind], Needs(c))
    THEN Zero ELSE RSub(c.resources[kind], Needs(c))

TotalStock(cs, kind) == RSum([i \in DOMAIN cs |-> cs[i].resources[kind]])
TotalLacks(cs, kind) == RSum([i \in DOMAIN cs |-> Lacks(cs[i], kind)])
TotalSpare(cs, kind) == RSum([i \in DOMAIN cs |-> Spare(cs[i], kind)])

\* Either has sanctioned the other.
Blocked(a, b) == a.name \in b.sanctions \/ b.name \in a.sanctions

\* The volumes trade clearing moves, by <<importer, exporter>>: for an
\* importer and an exporter that are not blocked, the exporter's share of
\* the total supply applied to the importer's demand.
Flows(cs, kind) ==
    LET ts == TotalSpare(cs, kind)
        tl == TotalLacks(cs, kind)
        lacks == [i \in DOMAIN cs |-> Lacks(cs[i], kind)]
        spare == [e \in DOMAIN cs |-> Spare(cs[e], kind)]
    IN  [pair \in (DOMAIN cs) \X (DOMAIN cs) |->
            IF /\ RGt(ts, Zero)
               /\ RGt(tl, Zero)
               /\ RGt(lacks[pair[1]], Zero)
               /\ RGt(spare[pair[2]], Zero)
               /\ ~Blocked(cs[pair[1]], cs[pair[2]])
            THEN RMul(RDiv(spare[pair[2]], ts), lacks[pair[1]])
            ELSE Zero]

\* What entity x exports and what it receives after its tariff.
Exported(cs, flows, x) == RSum([i \in DOMAIN cs |-> flows[<<i, x>>]])

Received(cs, flows, x) ==
    RMul(RSum([e \in DOMAIN cs |-> flows[<<x, e>>]]),
         RSub(One, cs[x].tariff_rate))

\* The volume withheld by tariffs over all traded pairs.
Withheld(cs, flows) ==
    RSum([i \in DOMAIN cs |->
             RMul(RSum([e \in DOMAIN cs |-> flows[<<i, e>>]]),
                  cs[i].tariff_rate)])

\* The state right after resolve_trade.  An importer that still lacks a
\* kind there and an exporter that still spares it did so before the call
\* as well, since trade only adds to an importer and only takes from an
\* exporter: if they are not blocked, they traded.
AfterTrade == pc = "reset" /\ idx = 1

\* Entity A with 100 oil has sanctioned B, which has none.
SanctionScenario ==
    World(<<Country("A", Stocks(100, 0, 0), R(100, 1), R(2, 100), R(10, 1),
                    R(2, 10), R(1, 10), {"B"}),
            Country("B", Stocks(0, 0, 0), R(100, 1), R(2, 100), R(10, 1),
                    R(2, 10), R(1, 10), {})>>)

\* C1: every entity's stock of every resource kind stays >= 0 in any run of
\* apply_policy calls and World.update() from a world with populations > 0,
\* tariffs in [0,1] and stocks >= 0 (every initial world is one).
C1_StocksNonNegative ==
    \A i \in Entities : \A kind \in Kinds : RGe(Stock(countries, i, kind), Zero)

\* C2: one resolve_trade changes the total stock of each kind by exactly
\* minus the sum over traded pairs of volume * importer.tariff_rate, and
\* leaves it unchanged when every tariff_rate is 0.
C2_TradeConserves ==
    [][pc = "trade" =>
        \A kind \in Kinds :
            /\ TotalStock(countries', kind) =
                   RSub(TotalStock(countries, kind),
                        Withheld(countries, Flows(countries, kind)))
            /\ (\A i \in Entities : countries[i].tariff_rate = Zero)
                   => TotalStock(countries', kind) = TotalStock(countries, kind)
      ]_vars

\* A trade took place between an importer that applies a tariff and an
\* exporter.
C2_Witness ==
    /\ AfterTrade
    /\ \E kind \in Kinds : \E i, e \in Entities :
           /\ RGt(Lacks(countries[i], kind), Zero)
           /\ RGt(Spare(countries[e], kind), Zero)
           /\ ~Blocked(countries[i], countries[e])
           /\ RGt(countries[i].tariff_rate, Zero)
           /\ RLt(countries[i].tariff_rate, One)

\* C3: resolve_trade moves nothing between two entities of which either has
\* sanctioned the other, and the blocked volume goes to no other pair: each
\* entity's stock changes by what it receives from and exports to the
\* entities it is not blocked with, every pair's volume being the
\* exporter's share of the total supply applied to the importer's demand.
\* With A (oil 100) having sanctioned B (oil 0) and no third entity,
\* resolve_trade leaves both as they are.
C3_SanctionsBlockTrade ==
    [][pc = "trade" =>
        /\ resolve_trade(SanctionScenario) = SanctionScenario
        /\ \A kind \in Kinds :
            LET flows == Flows(countries, kind)
            IN  \A x \in Entities :
                    /\ Stock(countries', x, kind) =
                           RSub(RAdd(Stock(countries, x, kind),
                                     Received(countries, flows, x)),
                                Exported(countries, flows, x))
                    /\ (\A y \in Entities \ {x} :
                            Blocked(countries[x], countries[y]))
                           => Stock(countries', x, kind) =
                                  Stock(countries, x, kind)
      ]_vars

\* A trade took place while an importer and an exporter were blocked, and
\* the importer had another exporter to trade with.
C3_Witness ==
    /\ AfterTrade
    /\ \E kind \in Kinds : \E i, e, f \in Entities :
           /\ RGt(Lacks(countries[i], kind), Zero)
           /\ RGt(Spare(countries[e], kind), Zero)
           /\ RGt(Spare(countries[f], kind), Zero)
           /\ Blocked(countries[i], countries[e])
           /\ ~Blocked(countries[i], countries[f])

\* The entity list in another order.
Reordered(cs, order) == [j \in DOMAIN cs |-> cs[order[j]]]

\* C4: resolve_trade on the entity list in any other order leaves every
\* entity with the stocks it gets in the order the world holds them.
C4_TradeOrderIndependent ==
    [][pc = "trade" =>
        \A order \in Permutations(Entities) :
            \A j \in Entities :
                resolve_trade(Reordered(countries, order))[j].resources =
                    countries'[order[j]].resources
      ]_vars

\* A trade took place with two importers and two exporters of a kind.
C4_Witness ==
    /\ AfterTrade
    /\ \E kind \in Kinds : \E i, j, e \in Entities :
           /\ i # j
           /\ RGt(Lacks(countries[i], kind), Zero)
           /\ RGt(Lacks(countries[j], kind), Zero)
           /\ RGt(Spare(countries[e], kind), Zero)
           /\ ~Blocked(countries[i], countries[e])
           /\ ~Blocked(countries[j], countries[e])

-----------------------------------------------------------------------------
(* Properties of the policies and of the turn.                             *)

RatePolicies == {"lower_taxes", "raise_taxes", "lower_tariffs", "raise_tariffs"}

\* x limited to [lo, hi].
Clamped(x, lo, hi) == RMax(lo, RMin(x, hi))

RatesInRange(c) ==
    /\ RGe(c.tax_rate, Zero) /\ RLe(c.tax_rate, R(1, 2))
    /\ RGe(c.tariff_rate, Zero) /\ RLe(c.tariff_rate, One)

\* What a rate policy makes of the two rates, by the policy table.
RatesAfter(c, policy) ==
    CASE policy = "lower_taxes" ->
             <<Clamped(RSub(c.tax_rate, R(2, 100)), Zero, R(1, 2)), c.tariff_rate>>
      [] policy = "raise_taxes" ->
             <<Clamped(RAdd(c.tax_rate, R(2, 100)), Zero, R(1, 2)), c.tariff_rate>>
      [] policy = "lower_tariffs" ->
             <<c.tax_rate, Clamped(RSub(c.tariff_rate, R(5, 100)), Zero, One)>>
      [] policy = "raise_tariffs" ->
             <<c.tax_rate, Clamped(RAdd(c.tariff_rate, R(5, 100)), Zero, One)>>

\* C5: in every state every tax_rate is in [0, 0.5] and every tariff_rate in
\* [0, 1], and a lower/raise policy applied there moves its rate by one
\* step (0.02 for tax, 0.05 for tariff) limited to that range and leaves
\* the other rate alone.
C5_RatesClamped ==
    \A i \in Entities :
        /\ RatesInRange(countries[i])
        /\ \A policy \in RatePolicies :
               LET d == apply_policy(countries[i], policy, None)
               IN  <<d.tax_rate, d.tariff_rate>> = RatesAfter(countries[i], policy)

\* A policy has been applied and left a tax_rate at a limit it could only
\* reach by a shortened step.
C5_Witness ==
    /\ calls > 0
    /\ \E i \in Entities : countries[i].tax_rate = Zero

\* The fields of entity i other than the named one are the same in cs and ds.
SameBut(cs, ds, i, changed) ==
    \A f \in DOMAIN cs[i] : f \notin changed => ds[i][f] = cs[i][f]

OnlyEntity(cs, ds, i) == \A j \in DOMAIN cs : j # i => ds[j] = cs[j]

\* C6: World.update() runs produce_resources for every entity, then
\* update_economy for every entity, then resolve_trade once, then
\* reset_temp for every entity, each loop over all entities in order before
\* the next phase starts; when it returns every new_sanctions is empty.
C6_PhasesInSequence ==
    [][LET n == Len(countries)
           last == idx = n
           step == idx' = idx + 1 /\ pc' = pc
       IN  /\ pc = "idle" /\ pc' # "idle" => pc' = "produce" /\ idx' = 1
           /\ pc = "produce" =>
                 /\ OnlyEntity(countries, countries', idx)
                 /\ SameBut(countries, countries', idx, {"resources"})
                 /\ IF last THEN pc' = "economy" /\ idx' = 1 ELSE step
           /\ pc = "economy" =>
                 /\ OnlyEntity(countries, countries', idx)
                 /\ SameBut(countries, countries', idx, {"gdp"})
                 /\ IF last THEN pc' = "trade" /\ idx' = 1 ELSE step
           /\ pc = "trade" =>
                 /\ \A i \in Entities :
                        SameBut(countries, countries', i, {"resources"})
                 /\ pc' = "reset" /\ idx' = 1
           /\ pc = "reset" =>
                 /\ OnlyEntity(countries, countries', idx)
                 /\ SameBut(countries, countries', idx, {"new_sanctions"})
                 /\ countries'[idx].new_sanctions = {}
                 /\ IF last THEN pc' = "returned" ELSE step
           /\ pc' = "returned" =>
                 \/ pc = "returned"
                 \/ \A i \in Entities : countries'[i].new_sanctions = {}
      ]_vars

\* update() returned after a sanction was imposed before it: the third
\* entity is sanctioned in no initial world.
C6_Witness ==
    /\ pc = "returned"
    /\ calls > 0
    /\ \E i \in Entities :
           /\ EntityNames[3] \in countries[i].sanctions
           /\ countries[i].new_sanctions = {}

\* C7: sanction(B) applied to A adds B to A.sanctions, and to
\* A.new_sanctions only when B was not in A.sanctions; applied again it
\* changes nothing, so with B sanctioned in an earlier turn and
\* new_sanctions cleared it leaves new_sanctions empty; with no target it
\* changes nothing; an apply_policy call changes the acting entity only.
C7_SanctionIdempotent ==
    [][/\ \A i \in Entities :
              LET c == countries[i]
                  none == apply_policy(c, "sanction", None)
              IN  /\ none = c
                  /\ \A t \in Names(countries) :
                         LET once == apply_policy(c, "sanction", t)
                             twice == apply_policy(once, "sanction", t)
                         IN  /\ once.sanctions = c.sanctions \cup {t}
                             /\ once.new_sanctions =
                                    c.new_sanctions \cup ({t} \ c.sanctions)
                             /\ \A f \in DOMAIN c :
                                    f \notin {"sanctions", "new_sanctions"}
                                        => once[f] = c[f]
                             /\ twice = once
                             /\ t \in c.sanctions => once = c
       /\ calls' # calls =>
              \E i \in Entities :
                  /\ OnlyEntity(countries, countries', i)
                  /\ countries'[i].sanctions # countries[i].sanctions =>
                         \E t \in Names(countries) :
                             /\ t \notin countries[i].sanctions
                             /\ countries'[i] =
                                    apply_policy(countries[i], "sanction", t)
      ]_vars

\* A sanction has been applied by an entity that had sanctioned another
\* entity before.
C7_Witness ==
    /\ calls > 0
    /\ \E i \in Entities :
           /\ countries[i].new_sanctions # {}
           /\ countries[i].sanctions \ countries[i].new_sanctions # {}

\* C8: invest_in_infrastructure changes nothing when a stock of the acting
\* entity is below 10; otherwise it takes exactly 10 from every stock and
\* adds exactly 0.005 to growth_rate; it changes no other field and no
\* other entity, and no step of any kind lowers a growth_rate.
C8_InvestOrNoOp ==
    [][/\ \A i \in Entities :
              LET c == countries[i]
                  d == apply_policy(c, "invest_in_infrastructure", None)
              IN  IF \E kind \in Kinds : RLt(c.resources[kind], R(10, 1))
                  THEN d = c
                  ELSE /\ \A kind \in Kinds :
                              d.resources[kind] =
                                  RSub(c.resources[kind], R(10, 1))
                       /\ d.growth_rate = RAdd(c.growth_rate, R(5, 1000))
                       /\ \A f \in DOMAIN c :
                              f \notin {"resources", "growth_rate"}
                                  => d[f] = c[f]
       /\ calls' # calls =>
              \E i \in Entities : OnlyEntity(countries, countries', i)
       /\ \A i \in Entities :
              RGe(countries'[i].growth_rate, countries[i].growth_rate)
      ]_vars

\* An investment has succeeded, and an entity had a stock below 10.
C8_Witness ==
    /\ calls > 0
    /\ \E i \in Entities : RGt(countries[i].growth_rate, R(2, 100))
    /\ \E i \in Entities : \E kind \in Kinds :
           RLt(countries[i].resources[kind], R(10, 1))

-----------------------------------------------------------------------------
(* Game: the handlers that apply the player's policy and advance the turn. *)
(* A handler runs to its end before the next event is read, so each is one *)
(* step.  A country is held by its index in world.countries, None by 0.    *)
(* A click is given as the country get_country_at found for it.           *)

\* Game._create_world, kept to its first GameCountries countries.
create_world ==
    LET names == <<"Albia", "Borovia", "Cyrenia", "Demeria">>
        resource_sets == <<Stocks(50, 20, 10), Stocks(10, 60, 20),
                           Stocks(20, 10, 70), Stocks(30, 30, 30)>>
    IN  World([k \in 1 .. GameCountries |->
                  Country(names[k], resource_sets[k],
                          R(100 + (k - 1) * 50, 1),
                          R(20 + (k - 1) * 5, 1000),
                          R(8 + (k - 1) * 2, 1),
                          R(15, 100), R(1, 10), {})])

\* Game.__init__
InitGame ==
    /\ countries = create_world
    /\ NoGame
    /\ pc = "idle"
    /\ idx = 0
    /\ calls = 0

\* The list ai_actions draws a policy from.  "sanction" is not in it, so
\* the branch of ai_actions that picks a sanction target never runs.
AiChoices == {"lower_taxes", "raise_taxes", "lower_tariffs", "raise_tariffs",
              "invest_in_infrastructure", None}

\* Game.ai_actions, with choice[i] the policy drawn for countries[i].
ai_actions(cs, player, choice) ==
    [i \in DOMAIN cs |->
        IF i = player \/ choice[i] = None
        THEN cs[i]
        ELSE apply_policy(cs[i], choice[i], None)]

\* The entries of sanctions_messages: <<c.name, s>> for "c sanctioned s".
sanctions_messages(cs) ==
    {<<cs[i].name, s>> : i \in DOMAIN cs, s \in Names(cs)} \cap
    UNION {{cs[i].name} \X cs[i].new_sanctions : i \in DOMAIN cs}

\* Game.advance_turn, entered with the world cs and the message text.
advance_turn(cs, text) ==
    \E choice \in [DOMAIN cs \ {player_country} -> AiChoices],
       fl \in [DOMAIN cs -> Fluctuations] :
        LET after == update(ai_actions(cs, player_country, choice), fl)
            entries == sanctions_messages(after)
        IN  /\ countries' = after
            /\ turn_count' = turn_count + 1
            /\ message' = IF entries # {} THEN <<"sanctions", entries>> ELSE text

\* The policy and the message of the keys 1 to 5.
KeyPolicy ==
    <<"lower_taxes", "raise_taxes", "lower_tariffs", "raise_tariffs",
      "invest_in_infrastructure">>

KeyMessage ==
    <<"Lowered taxes.", "Raised taxes.", "Lowered tariffs.", "Raised tariffs.",
      "Invested in infrastructure.">>

\* The tests handle_key returns on.
KeysAccepted ==
    /\ player_country # 0
    /\ selected_country # 0
    /\ selected_country = player_country
    /\ ~awaiting_sanction_target

\* Game.handle_key for K_1 .. K_5
HandleKeyPolicy(key) ==
    /\ KeysAccepted
    /\ turn_count <= MaxTurns
    /\ advance_turn(
           [countries EXCEPT ![player_country] =
                                 apply_policy(@, KeyPolicy[key], None)],
           <<KeyMessage[key]>>)
    /\ UNCHANGED <<player_country, selected_country, awaiting_sanction_target>>
    /\ UNCHANGED <<pc, idx, calls>>

\* Game.handle_key for K_6
HandleKeySanction ==
    /\ KeysAccepted
    /\ awaiting_sanction_target' = TRUE
    /\ message' = <<"Click a country to sanction.">>
    /\ UNCHANGED <<countries, player_country, selected_country, turn_count>>
    /\ UNCHANGED <<pc, idx, calls>>

\* Game.handle_click on another country while a sanction target is awaited.
HandleClickSanction(clicked) ==
    /\ awaiting_sanction_target /\ clicked # 0 /\ player_country # 0
    /\ clicked # player_country
    /\ turn_count <= MaxTurns
    /\ awaiting_sanction_target' = FALSE
    /\ advance_turn(
           [countries EXCEPT ![player_country] =
                                 apply_policy(@, "sanction", countries[clicked].name)],
           <<"You sanctioned", countries[clicked].name>>)
    /\ UNCHANGED <<player_country, selected_country>>
    /\ UNCHANGED <<pc, idx, calls>>

\* Game.handle_click on the player's country while a target is awaited.
HandleClickOwn(clicked) ==
    /\ awaiting_sanction_target /\ clicked # 0 /\ player_country # 0
    /\ clicked = player_country
    /\ message' = <<"Cannot sanction your own country.">>
    /\ awaiting_sanction_target' = FALSE
    /\ UNCHANGED <<countries, player_country, selected_country, turn_count>>
    /\ UNCHANGED <<pc, idx, calls>>

\* Game.handle_click otherwise: the clicked country (or None) is selected,
\* and the first country selected becomes the player's.
HandleClickSelect(clicked) ==
    /\ ~(awaiting_sanction_target /\ clicked # 0 /\ player_country # 0)
    /\ selected_country' = clicked
    /\ IF player_country = 0 /\ clicked # 0
       THEN /\ player_country' = clicked
            /\ message' = <<"You are now playing as", countries[clicked].name>>
       ELSE /\ player_country' = player_country
            /\ message' = IF clicked # 0
                          THEN <<"Selected", countries[clicked].name>>
                          ELSE <<"">>
    /\ UNCHANGED <<countries, awaiting_sanction_target, turn_count>>
    /\ UNCHANGED <<pc, idx, calls>>

KeyPressed == \E key \in DOMAIN KeyPolicy : HandleKeyPolicy(key)

ClickedTarget == \E clicked \in DOMAIN countries : HandleClickSanction(clicked)

ClickedOwn == \E clicked \in DOMAIN countries : HandleClickOwn(clicked)

ClickedMap == \E clicked \in {0} \cup DOMAIN countries : HandleClickSelect(clicked)

NextGame ==
    \/ KeyPressed
    \/ HandleKeySanction
    \/ ClickedTarget
    \/ ClickedOwn
    \/ ClickedMap

SpecGame == InitGame /\ [][NextGame]_vars

\* The entries of the turn summary a message shows.
Summary(text) == IF text[1] = "sanctions" THEN text[2] ELSE {}

\* C10: the summary advance_turn builds holds 'A sanctioned B' for exactly
\* the sanctions imposed in the turn it advances: an entry for every B that
\* A newly sanctioned, and none for a sanction of an earlier turn.
C10_SanctionsReported ==
    [][turn_count' = turn_count + 1 =>
        Summary(message') =
            UNION {{countries[i].name} \X
                       (countries'[i].sanctions \ countries[i].sanctions) :
                   i \in DOMAIN countries}
      ]_vars

\* The input a world may be built from: no name twice, the same resource
\* kinds for every entity, no negative population.
WellFormed(cs) ==
    /\ \A i, j \in DOMAIN cs : i # j => cs[i].name # cs[j].name
    /\ \A i, j \in DOMAIN cs : DOMAIN cs[i].resources = DOMAIN cs[j].resources
    /\ \A i \in DOMAIN cs : RGe(cs[i].population, Zero)

\* C9: a world built from malformed input (a name twice, differing resource
\* kinds, a negative population) is rejected at construction, so no phase of
\* World.update ever runs on one.
C9_MalformedRejected == pc # "idle" => WellFormed(countries)

====
